---- MODULE Spec2Model ----
(***************************************************************************)
(* Model of the PGN gateway (src/unnamed/part_000): the NodeCache-backed   *)
(* fileCache, the GET /api/pgn-files handler with its 8 s timeout race and *)
(* stale fallback, POST /api/clear-cache, and GET /api/prefetch with its   *)
(* fire-and-forget background tasks.                                       *)
(*                                                                         *)
(* JavaScript strings are modelled as sequences of one-character strings,  *)
(* so that the charset regex, split('/') and the leading-digit parse are   *)
(* computed character by character.                                        *)
(***************************************************************************)
EXTENDS Integers, Sequences, FiniteSets, Bags, TLC

VARIABLES
    adminKey,   \* process.env.ADMIN_API_KEY, fixed when the process starts
    data,       \* fileCache contents: key -> [v: list, age: ticks since set]
    inflight,   \* bag of upstream queries not yet settled, with their owner
    last        \* the operation performed by the latest step and its response

vars == <<adminKey, data, inflight, last>>

----------------------------------------------------------------------------
(* Bounds of the model *)

\* stdTTL (43200 s) measured in clock ticks: one tick is 43200/TTLTicks s.
TTLTicks == 1

\* Upstream queries (awaited, or outstanding after a timeout) at one time.
MaxInflight == 2

\* Upstream queries at one time when the prefetcher is studied on its own.
MaxPrefetchInflight == 5

\* Files in one upstream answer when the classifier is studied on its own.
MaxFiles == 4

----------------------------------------------------------------------------
(* JavaScript values *)

\* The value `undefined` (a missing query parameter, body field or env var).
Undefined == <<"undefined">>

Digits == {"0", "1", "2", "3", "4", "5", "6", "7", "8", "9"}

Letters ==
    {"a", "b", "c", "d", "e", "f", "g", "h", "i", "j", "k", "l", "m",
     "n", "o", "p", "q", "r", "s", "t", "u", "v", "w", "x", "y", "z",
     "A", "B", "C", "D", "E", "F", "G", "H", "I", "J", "K", "L", "M",
     "N", "O", "P", "Q", "R", "S", "T", "U", "V", "W", "X", "Y", "Z"}

\* The character class [a-zA-Z0-9_].
WordChars == Letters \cup Digits \cup {"_"}

\* !level : undefined and the empty string are falsy.
Falsy(s) == s = Undefined \/ s = <<>>

\* /^[a-zA-Z0-9_]+$/.test(level)
LevelRegexTest(s) == Len(s) > 0 /\ \A i \in 1..Len(s) : s[i] \in WordChars

\* String.prototype.split(sep) for a one-character separator.
RECURSIVE SplitFrom(_, _, _, _)
SplitFrom(s, sep, i, cur) ==
    IF i > Len(s) THEN <<cur>>
    ELSE IF s[i] = sep THEN <<cur>> \o SplitFrom(s, sep, i + 1, <<>>)
    ELSE SplitFrom(s, sep, i + 1, Append(cur, s[i]))

Split(s, sep) == SplitFrom(s, sep, 1, <<>>)

\* Faulty variant of Slice0: the list is not cut.
Slice0_Uncut(seq, n) == seq

\* Array.prototype.slice(0, n)
Slice0(seq, n) == SubSeq(seq, 1, IF Len(seq) < n THEN Len(seq) ELSE n)

----------------------------------------------------------------------------
(* Result classifier and sorter (the body of both handlers' processing) *)

\* An upstream file record.
File(url, id) == [secure_url |-> url, public_id |-> id]

\* file.public_id.split('/') and its last part.
DisplayNameOf(public_id) ==
    LET parts == Split(public_id, "/") IN parts[Len(parts)]

\* fileInfo = { url, filename, displayName }
FileInfo(file) ==
    [url |-> file.secure_url,
     filename |-> file.public_id,
     displayName |-> DisplayNameOf(file.public_id)]

\* /^\d/.test(filename)
StartsWithDigit(name) == Len(name) > 0 /\ name[1] \in Digits

\* displayName.match(/^\d+/) : the maximal leading run of digits.
RECURSIVE LeadingDigits(_)
LeadingDigits(name) ==
    IF Len(name) > 0 /\ name[1] \in Digits
    THEN <<name[1]>> \o LeadingDigits(Tail(name))
    ELSE <<>>

DigitValue(c) ==
    CASE c = "0" -> 0 [] c = "1" -> 1 [] c = "2" -> 2 [] c = "3" -> 3
      [] c = "4" -> 4 [] c = "5" -> 5 [] c = "6" -> 6 [] c = "7" -> 7
      [] c = "8" -> 8 [] c = "9" -> 9

\* parseInt(digits, 10) || 0 : an empty run gives NaN, replaced by 0.
RECURSIVE ParseIntFrom(_, _)
ParseIntFrom(digits, acc) ==
    IF digits = <<>> THEN acc
    ELSE ParseIntFrom(Tail(digits), 10 * acc + DigitValue(digits[1]))

LeadingNumber(name) == ParseIntFrom(LeadingDigits(name), 0)

\* Collation order of the characters the model's names use (ICU root
\* collation: punctuation before digits before letters).
CollationOrder ==
    <<"_", "0", "1", "2", "3", "4", "5", "6", "7", "8", "9",
      "a", "b", "c", "d", "e", "f", "g", "h", "i", "j", "k", "l", "m",
      "n", "o", "p", "q", "r", "s", "t", "u", "v", "w", "x", "y", "z">>

CollationRank(c) == CHOOSE i \in 1..Len(CollationOrder) : CollationOrder[i] = c

\* a.localeCompare(b) : negative, zero or positive.
RECURSIVE LocaleCompare(_, _)
LocaleCompare(a, b) ==
    IF a = <<>> THEN (IF b = <<>> THEN 0 ELSE -1)
    ELSE IF b = <<>> THEN 1
    ELSE IF CollationRank(a[1]) < CollationRank(b[1]) THEN -1
    ELSE IF CollationRank(a[1]) > CollationRank(b[1]) THEN 1
    ELSE LocaleCompare(Tail(a), Tail(b))

\* Faulty variant of NumberCompare: the digit runs compared as text.
NumberCompare_AsText(a, b) ==
    LocaleCompare(LeadingDigits(a.displayName), LeadingDigits(b.displayName))

\* The comparator of numberFiles.sort: numA - numB.
NumberCompare(a, b) == LeadingNumber(a.displayName) - LeadingNumber(b.displayName)

\* The comparator of letterFiles.sort.
LetterCompare(a, b) == LocaleCompare(a.displayName, b.displayName)

\* Faulty variant of InsertNumber: an unstable sort, x goes before its equals.
RECURSIVE InsertNumber_Unstable(_, _)
InsertNumber_Unstable(sorted, x) ==
    IF sorted = <<>> THEN <<x>>
    ELSE IF NumberCompare(sorted[Len(sorted)], x) < 0 THEN Append(sorted, x)
    ELSE Append(InsertNumber_Unstable(SubSeq(sorted, 1, Len(sorted) - 1), x),
                sorted[Len(sorted)])

\* Array.prototype.sort is stable: x goes after every element that does not
\* compare greater than it.
RECURSIVE InsertNumber(_, _)
InsertNumber(sorted, x) ==
    IF sorted = <<>> THEN <<x>>
    ELSE IF NumberCompare(sorted[Len(sorted)], x) <= 0 THEN Append(sorted, x)
    ELSE Append(InsertNumber(SubSeq(sorted, 1, Len(sorted) - 1), x),
                sorted[Len(sorted)])

RECURSIVE SortNumberFiles(_)
SortNumberFiles(files) ==
    IF files = <<>> THEN <<>>
    ELSE InsertNumber(SortNumberFiles(SubSeq(files, 1, Len(files) - 1)),
                      files[Len(files)])

RECURSIVE InsertLetter(_, _)
InsertLetter(sorted, x) ==
    IF sorted = <<>> THEN <<x>>
    ELSE IF LetterCompare(sorted[Len(sorted)], x) <= 0 THEN Append(sorted, x)
    ELSE Append(InsertLetter(SubSeq(sorted, 1, Len(sorted) - 1), x),
                sorted[Len(sorted)])

RECURSIVE SortLetterFiles(_)
SortLetterFiles(files) ==
    IF files = <<>> THEN <<>>
    ELSE InsertLetter(SortLetterFiles(SubSeq(files, 1, Len(files) - 1)),
                      files[Len(files)])

IsNumberFile(info) == StartsWithDigit(info.displayName)

IsLetterFile(info) == ~StartsWithDigit(info.displayName)

\* Faulty variant of Classify: the two groups concatenated the other way round.
Classify_LettersFirst(resources) ==
    LET infos == [i \in 1..Len(resources) |-> FileInfo(resources[i])]
        numberFiles == SelectSeq(infos, IsNumberFile)
        letterFiles == SelectSeq(infos, IsLetterFile)
    IN  SortLetterFiles(letterFiles) \o SortNumberFiles(numberFiles)

\* resources.forEach(...), the two sorts and [...numberFiles, ...letterFiles].
Classify(resources) ==
    LET infos == [i \in 1..Len(resources) |-> FileInfo(resources[i])]
        numberFiles == SelectSeq(infos, IsNumberFile)
        letterFiles == SelectSeq(infos, IsLetterFile)
    IN  SortNumberFiles(numberFiles) \o SortLetterFiles(letterFiles)

\* An upstream answer: the `resources` field of the resolved value.
\* isArray = FALSE stands for a response without a resources array.
Response(isArray, resources) == [isArray |-> isArray, resources |-> resources]

\* file.public_id.split throws when a record has no public_id.
ClassifyThrows(resources) ==
    \E i \in 1..Len(resources) : resources[i].public_id = Undefined

----------------------------------------------------------------------------
(* fileCache: new NodeCache({ stdTTL: 43200, checkperiod: 600, useClones: false }) *)

\* A stored entry: the value and the time since it was set, in ticks.
\* The cache keeps t = (time of set) + stdTTL; age > TTLTicks is t < Date.now().
Entry(v, age) == [v |-> v, age |-> age]

\* Faulty variant of Expired: the entry never expires.
Expired_Never(e) == FALSE

Expired(e) == e.age > TTLTicks

\* del(key) and flushAll()
CacheDel(d, k) == [x \in DOMAIN d \ {k} |-> d[x]]

CacheFlushAll(d) == [x \in {} |-> Entry(<<>>, 0)]

\* The expiry check made by get and has: an expired key is deleted on sight.
CacheCheck(d, k) ==
    IF k \in DOMAIN d /\ Expired(d[k]) THEN CacheDel(d, k) ELSE d

\* has(key)
CacheHas(d, k) == k \in DOMAIN d /\ ~Expired(d[k])

\* get(key): the stored array itself (useClones: false), or undefined.
CacheGet(d, k) ==
    IF CacheHas(d, k) THEN [found |-> TRUE, value |-> d[k].v]
    ELSE [found |-> FALSE, value |-> <<>>]

\* Faulty variant of CacheSet: an unexpired entry is kept, the first set wins.
CacheSet_KeepsFirst(d, k, v) ==
    IF CacheHas(d, k) THEN d
    ELSE [x \in DOMAIN d \cup {k} |-> IF x = k THEN Entry(v, 0) ELSE d[x]]

\* set(key, value): stores the value and restarts the countdown.
CacheSet(d, k, v) ==
    [x \in DOMAIN d \cup {k} |-> IF x = k THEN Entry(v, 0) ELSE d[x]]

\* The periodic check (checkperiod): every expired key is deleted.
CacheSweep(d) == [x \in {y \in DOMAIN d : ~Expired(d[y])} |-> d[x]]

\* Faulty variant of Truthy: an empty cached array taken for a miss.
Truthy_EmptyIsMiss(g) == g.found /\ Len(g.value) > 0

\* if (cachedFiles) : an array, even an empty one, is truthy; undefined is not.
Truthy(g) == g.found

----------------------------------------------------------------------------
(* Upstream queries in flight *)

\* What a fetch remembers about the entry its lookup found expired.
NoStale == [known |-> FALSE, v |-> <<>>]

Stale(v) == [known |-> TRUE, v |-> v]

\* kind "pgn": awaited by a pgn-files handler, racing its 8 s timer;
\* kind "late": its handler has timed out, the query is still outstanding;
\* kind "prefetch": awaited by a background prefetch task (no timer).
\* old: a clear-cache carrying the configured admin secret has covered the
\* task's key since the query was issued.
Task(kind, level, stale) ==
    [kind |-> kind, level |-> level, stale |-> stale, old |-> FALSE]

\* cloudinary.search.expression(`folder:${level} AND format:pgn`) is a query
\* for the key `level`.
InFlight(kind) == {t \in BagToSet(inflight) : t.kind = kind}

RECURSIVE BagOfSeq(_)
BagOfSeq(seq) ==
    IF seq = <<>> THEN EmptyBag
    ELSE BagOfSeq(Tail(seq)) (+) SetToBag({seq[1]})

RECURSIVE SeqOfBag(_)
SeqOfBag(B) ==
    IF BagToSet(B) = {} THEN <<>>
    ELSE LET t == CHOOSE x \in BagToSet(B) : TRUE
         IN  <<t>> \o SeqOfBag(B (-) SetToBag({t}))

\* The fetches for a key whose entry was set or invalidated meanwhile no
\* longer hold the value their lookup found expired.
Forget(B, touched) ==
    LET seq == SeqOfBag(B)
    IN  BagOfSeq([i \in 1..Len(seq) |->
            IF seq[i].level \in touched THEN [seq[i] EXCEPT !.stale = NoStale]
            ELSE seq[i]])

\* The queries still awaited for the keys a clear-cache covered were issued
\* before it (recorded for requests that carry a configured secret).
Outdate(B, touched) ==
    LET seq == SeqOfBag(B)
    IN  BagOfSeq([i \in 1..Len(seq) |->
            IF seq[i].level \in touched /\ seq[i].kind # "late"
            THEN [seq[i] EXCEPT !.old = TRUE]
            ELSE seq[i]])

----------------------------------------------------------------------------
(* Inputs *)

KeyA == <<"a">>

\* A level outside the charset.
KeyBad == <<"a", "!">>

\* req.query.level of GET /api/pgn-files and req.body.level of clear-cache.
LevelInputs == {Undefined, <<>>, KeyA, KeyBad}

\* req.query.levels of GET /api/prefetch.
LevelsInputs ==
    {Undefined, <<>>, KeyA, KeyBad,
     <<"a", ",", "a", "!">>, <<"a", ",", "a">>,
     <<"a", ",", "a", ",", "a", ",", "a", ",", "a", ",", "a", "!">>}

AdminSecret == <<"k", "e", "y">>

\* req.body.apiKey: absent, the secret, or something else.
ApiKeyInputs == {Undefined, AdminSecret, <<"x">>}

\* process.env.ADMIN_API_KEY: unset, or the secret.
AdminKeyConfigs == {Undefined, AdminSecret}

Res0 == <<>>

Res1 ==
    << File("u1", <<"f", "/", "1", "0", "_", "g">>),
       File("u2", <<"f", "/", "2", "_", "g">>),
       File("u3", <<"f", "/", "b">>),
       File("u4", <<"f", "/", "a">>) >>

\* A resources array holding a record without public_id.
ResBroken == << File("u5", Undefined) >>

\* The files upstream answers are made of when the classifier is studied:
\* numbers whose text order differs from their value (10, 2), equal values
\* written differently (7, 007), names with and without a folder.
FilePool ==
    { File("u1", <<"f", "/", "1", "0", "_", "g">>),
      File("u2", <<"f", "/", "2", "_", "g">>),
      File("u3", <<"7", "_", "a">>),
      File("u4", <<"f", "/", "0", "0", "7", "_", "b">>),
      File("u5", <<"f", "/", "b">>),
      File("u6", <<"a">>) }

\* Every resources array of at most MaxFiles files of the pool, in every order.
ClassifierResponses ==
    {Response(TRUE, resources) :
        resources \in UNION {[1..n -> FilePool] : n \in 0..MaxFiles}}

\* What the upstream search may resolve with.
UpstreamResponses ==
    {Response(TRUE, Res0), Response(TRUE, Res1),
     Response(FALSE, <<>>), Response(TRUE, ResBroken)}

----------------------------------------------------------------------------
(* The latest operation and its response *)

\* op: the step; arg: its level (or levels, or apiKey-less input);
\* status: the HTTP status sent by this step, 0 when it sends none;
\* body: the list sent with a 200 of pgn-files; staleHdr: X-Served-From-Stale-Cache;
\* issued: the keys of the upstream queries this step issued;
\* cause: why the lookup missed or the fetch failed; stale: what the fetch's lookup had found expired.
\* removed: the keys a clear-cache request removed;
\* apiKey: the apiKey of a clear-cache request; response: what the upstream
\* query resolved with, when this step is a resolution;
\* replaced: the unexpired entry a set of this step overwrote; old: the query
\* whose answer this step stored was issued before a clear-cache of its key.
Last(op, arg, status, body, staleHdr, issued, cause, stale) ==
    [op |-> op, arg |-> arg, status |-> status, body |-> body,
     staleHdr |-> staleHdr, issued |-> issued,
     cause |-> cause, stale |-> stale,
     apiKey |-> Undefined, response |-> Response(FALSE, <<>>), removed |-> {},
     replaced |-> NoStale, old |-> FALSE]

WithApiKey(l, apiKey) == [l EXCEPT !.apiKey = apiKey]

WithRemoved(l, keys) == [l EXCEPT !.removed = keys]

WithResponse(l, response) == [l EXCEPT !.response = response]

\* The step stored task t's answer over what cache d held for its key.
WithSet(l, d, t) ==
    [l EXCEPT !.replaced = IF CacheHas(d, t.level) THEN Stale(d[t.level].v) ELSE NoStale,
              !.old = t.old]

Quiet(op) == Last(op, Undefined, 0, <<>>, FALSE, <<>>, "none", NoStale)

Init ==
    /\ adminKey \in AdminKeyConfigs
    /\ data = CacheFlushAll(<<>>)
    /\ inflight = EmptyBag
    /\ last = Quiet("init")

----------------------------------------------------------------------------
(* GET /api/pgn-files *)

\* Faulty variant of ValidLevel: the handler without its security check.
ValidLevel_Unchecked(level) == ~Falsy(level)

\* The two input checks of the handler.
ValidLevel(level) == ~Falsy(level) /\ LevelRegexTest(level)

\* The handler up to its await: validation, cache lookup, and on a miss the
\* timer and the upstream query, with at most `room` queries in flight after it.
PgnFilesWithin(level, room) ==
    IF ~ValidLevel(level)
    THEN /\ last' = Last("pgn", level, 400, <<>>, FALSE, <<>>, "none", NoStale)
         /\ UNCHANGED <<adminKey, data, inflight>>
    ELSE LET cachedFiles == CacheGet(data, level)
             lapsed == level \in DOMAIN data /\ ~CacheHas(data, level)
         IN  IF Truthy(cachedFiles)
             THEN /\ last' = Last("pgn", level, 200, cachedFiles.value, FALSE,
                                  <<>>, "none", NoStale)
                  /\ data' = CacheCheck(data, level)
                  /\ UNCHANGED <<adminKey, inflight>>
             ELSE /\ BagCardinality(inflight) < room
                  /\ data' = CacheCheck(data, level)
                  /\ inflight' = inflight (+) SetToBag({Task("pgn", level,
                        IF lapsed THEN Stale(data[level].v) ELSE NoStale)})
                  /\ last' = Last("pgn", level, 0, <<>>, FALSE, <<level>>,
                                  IF lapsed THEN "expired" ELSE "absent", NoStale)
                  /\ UNCHANGED adminKey

PgnFiles(level) == PgnFilesWithin(level, MaxInflight)

\* The catch block: serve what the cache holds now, else 500.
Catch(op, t, cause, response) ==
    LET staleCache == CacheGet(data, t.level)
    IN  /\ data' = CacheCheck(data, t.level)
        /\ last' = WithResponse(
                     IF Truthy(staleCache)
                     THEN Last(op, t.level, 200, staleCache.value, TRUE, <<>>,
                               cause, t.stale)
                     ELSE Last(op, t.level, 500, <<>>, FALSE, <<>>, cause, t.stale),
                     response)

\* Faulty variant of WellFormed: the shape check dropped.
WellFormed_Unchecked(response) == ~ClassifyThrows(response.resources)

\* resources is an array whose records can be processed.
WellFormed(response) == response.isArray /\ ~ClassifyThrows(response.resources)

\* Faulty variant of PgnResolve: the classified list is sent but not cached.
PgnResolve_NoStore(t, response) ==
    /\ t \in InFlight("pgn")
    /\ IF WellFormed(response)
       THEN /\ inflight' = inflight (-) SetToBag({t})
            /\ last' = WithResponse(
                         Last("pgn_resolve", t.level, 200,
                              Classify(response.resources), FALSE, <<>>,
                              "none", t.stale), response)
            /\ UNCHANGED data
       ELSE /\ Catch("pgn_resolve", t, "malformed", response)
            /\ inflight' = inflight (-) SetToBag({t})
    /\ UNCHANGED adminKey

\* The upstream query resolves before the timer fires.
PgnResolve(t, response) ==
    /\ t \in InFlight("pgn")
    /\ IF WellFormed(response)
       THEN LET pgnFiles == Classify(response.resources)
            IN  /\ data' = CacheSet(data, t.level, pgnFiles)
                /\ inflight' = Forget(inflight (-) SetToBag({t}), {t.level})
                /\ last' = WithSet(WithResponse(
                             Last("pgn_resolve", t.level, 200, pgnFiles, FALSE, <<>>,
                                  "none", t.stale), response), data, t)
       ELSE /\ Catch("pgn_resolve", t, "malformed", response)
            /\ inflight' = inflight (-) SetToBag({t})
    /\ UNCHANGED adminKey

\* The upstream query rejects before the timer fires.
PgnReject(t) ==
    /\ t \in InFlight("pgn")
    /\ Catch("pgn_reject", t, "error", Response(FALSE, <<>>))
    /\ inflight' = inflight (-) SetToBag({t})
    /\ UNCHANGED adminKey

\* Faulty variant of PgnTimeout: the timer fires without rejecting the race.
PgnTimeout_KeepsWaiting(t) ==
    /\ t \in InFlight("pgn")
    /\ last' = Quiet("pgn_timeout")
    /\ UNCHANGED <<adminKey, data, inflight>>

\* The 8 s timer fires first: the handler fails, the query stays outstanding.
PgnTimeout(t) ==
    /\ t \in InFlight("pgn")
    /\ Catch("pgn_timeout", t, "timeout", Response(FALSE, <<>>))
    /\ inflight' = (inflight (-) SetToBag({t}))
                      (+) SetToBag({Task("late", t.level, NoStale)})
    /\ UNCHANGED adminKey

\* Faulty variant of LateSettle: the late answer is processed and cached all the same.
LateSettle_Stores(t, response) ==
    /\ t \in InFlight("late")
    /\ inflight' = inflight (-) SetToBag({t})
    /\ data' = IF WellFormed(response)
               THEN CacheSet(data, t.level, Classify(response.resources))
               ELSE data
    /\ last' = WithResponse(
                 Last("late", t.level, 0, <<>>, FALSE, <<>>, "none", NoStale),
                 response)
    /\ UNCHANGED adminKey

\* The query of a timed-out handler settles: nobody is waiting for it.
LateSettle(t, response) ==
    /\ t \in InFlight("late")
    /\ inflight' = inflight (-) SetToBag({t})
    /\ last' = WithResponse(
                 Last("late", t.level, 0, <<>>, FALSE, <<>>, "none", NoStale),
                 response)
    /\ UNCHANGED <<adminKey, data>>

----------------------------------------------------------------------------
(* POST /api/clear-cache *)

\* apiKey !== process.env.ADMIN_API_KEY is the 401 branch.
Authorized(apiKey) == apiKey = adminKey

\* Faulty variant of Cleared: a level is ignored and everything is flushed.
Cleared_FlushesAll(d, level) == CacheFlushAll(d)

\* if (level) fileCache.del(level) else fileCache.flushAll()
Cleared(d, level) == IF ~Falsy(level) THEN CacheDel(d, level) ELSE CacheFlushAll(d)

ClearCache(level, apiKey) ==
    IF ~Authorized(apiKey)
    THEN /\ last' = WithApiKey(
                      Last("clear", level, 401, <<>>, FALSE, <<>>, "none", NoStale),
                      apiKey)
         /\ UNCHANGED <<adminKey, data, inflight>>
    ELSE LET touched == IF Falsy(level) THEN {t.level : t \in BagToSet(inflight)}
                        ELSE {level}
         IN  /\ data' = Cleared(data, level)
             /\ inflight' = IF adminKey # Undefined
                            THEN Outdate(Forget(inflight, touched), touched)
                            ELSE Forget(inflight, touched)
             /\ last' = WithRemoved(WithApiKey(
                          Last("clear", level, 200, <<>>, FALSE, <<>>, "none", NoStale),
                          apiKey), DOMAIN data \ DOMAIN Cleared(data, level))
             /\ UNCHANGED adminKey

----------------------------------------------------------------------------
(* GET /api/prefetch *)

\* The cap of levelList.slice(0, 5).
PrefetchCap == 5

\* levelsToPrefetch.forEach(async ...) up to each task's await: the tasks
\* run one after the other; each checks has(level) and, unless the level
\* is cached, issues its query.
RECURSIVE PrefetchEach(_, _)
PrefetchEach(levels, acc) ==
    IF levels = <<>> THEN acc
    ELSE LET level == levels[1]
         IN  IF CacheHas(acc.data, level)
             THEN PrefetchEach(Tail(levels), acc)
             ELSE PrefetchEach(Tail(levels),
                    [data |-> CacheCheck(acc.data, level),
                     issued |-> Append(acc.issued, level)])

\* The handler, with at most `room` queries in flight after it.
PrefetchWithin(levels, room) ==
    IF Falsy(levels)
    THEN /\ last' = Last("prefetch", levels, 400, <<>>, FALSE, <<>>, "none", NoStale)
         /\ UNCHANGED <<adminKey, data, inflight>>
    ELSE LET levelList == Split(levels, ",")
             levelsToPrefetch == Slice0(levelList, PrefetchCap)
             done == PrefetchEach(levelsToPrefetch, [data |-> data, issued |-> <<>>])
             tasks == [i \in 1..Len(done.issued) |->
                          Task("prefetch", done.issued[i], NoStale)]
         IN  /\ BagCardinality(inflight) + Len(done.issued) <= room
             /\ data' = done.data
             /\ inflight' = inflight (+) BagOfSeq(tasks)
             /\ last' = Last("prefetch", levels, 200, <<>>, FALSE, done.issued,
                             "none", NoStale)
             /\ UNCHANGED adminKey

Prefetch(levels) == PrefetchWithin(levels, MaxInflight)

\* Faulty variant of PrefetchResolve: the new list is added to the cached one.
PrefetchResolve_Merges(t, response) ==
    /\ t \in InFlight("prefetch")
    /\ IF WellFormed(response)
       THEN LET pgnFiles == Classify(response.resources)
                merged == IF CacheHas(data, t.level)
                          THEN data[t.level].v \o pgnFiles ELSE pgnFiles
            IN  /\ data' = CacheSet(data, t.level, merged)
                /\ inflight' = Forget(inflight (-) SetToBag({t}), {t.level})
                /\ last' = WithSet(WithResponse(
                             Last("prefetch_resolve", t.level, 0, pgnFiles, FALSE,
                                  <<>>, "none", NoStale), response), data, t)
       ELSE /\ inflight' = inflight (-) SetToBag({t})
            /\ last' = WithResponse(
                         Last("prefetch_resolve", t.level, 0, <<>>, FALSE, <<>>,
                              "malformed", NoStale), response)
            /\ UNCHANGED data
    /\ UNCHANGED adminKey

\* A prefetch task's query resolves: process and cache, or log the error.
PrefetchResolve(t, response) ==
    /\ t \in InFlight("prefetch")
    /\ IF WellFormed(response)
       THEN LET pgnFiles == Classify(response.resources)
            IN  /\ data' = CacheSet(data, t.level, pgnFiles)
                /\ inflight' = Forget(inflight (-) SetToBag({t}), {t.level})
                /\ last' = WithSet(WithResponse(
                             Last("prefetch_resolve", t.level, 0, pgnFiles, FALSE,
                                  <<>>, "none", NoStale), response), data, t)
       ELSE /\ inflight' = inflight (-) SetToBag({t})
            /\ last' = WithResponse(
                         Last("prefetch_resolve", t.level, 0, <<>>, FALSE, <<>>,
                              "malformed", NoStale), response)
            /\ UNCHANGED data
    /\ UNCHANGED adminKey

\* Faulty variant of PrefetchReject: one task's failure ends the others.
PrefetchReject_EndsAll(t) ==
    /\ t \in InFlight("prefetch")
    /\ inflight' = [u \in BagToSet(inflight) \ InFlight("prefetch") |-> inflight[u]]
    /\ last' = Last("prefetch_reject", t.level, 0, <<>>, FALSE, <<>>,
                    "error", NoStale)
    /\ UNCHANGED <<adminKey, data>>

\* A prefetch task's query rejects: the error is logged.
PrefetchReject(t) ==
    /\ t \in InFlight("prefetch")
    /\ inflight' = inflight (-) SetToBag({t})
    /\ last' = Last("prefetch_reject", t.level, 0, <<>>, FALSE, <<>>,
                    "error", NoStale)
    /\ UNCHANGED <<adminKey, data>>

----------------------------------------------------------------------------
(* Time *)

\* One tick of the clock: every entry is one tick older (an expired entry
\* stays expired, so its age is not counted further).
Tick ==
    /\ \E k \in DOMAIN data : data[k].age <= TTLTicks
    /\ data' = [k \in DOMAIN data |->
                   IF data[k].age > TTLTicks THEN data[k]
                   ELSE Entry(data[k].v, data[k].age + 1)]
    /\ last' = Quiet("tick")
    /\ UNCHANGED <<adminKey, inflight>>

\* The cache's periodic check (every checkperiod = 600 s).
CheckData ==
    /\ data' = CacheSweep(data)
    /\ last' = Quiet("sweep")
    /\ UNCHANGED <<adminKey, inflight>>

----------------------------------------------------------------------------

Next ==
    \/ \E level \in LevelInputs : PgnFiles(level)
    \/ \E t \in BagToSet(inflight), r \in UpstreamResponses : PgnResolve(t, r)
    \/ \E t \in BagToSet(inflight) : PgnReject(t)
    \/ \E t \in BagToSet(inflight) : PgnTimeout(t)
    \/ \E t \in BagToSet(inflight), r \in UpstreamResponses : LateSettle(t, r)
    \/ \E level \in LevelInputs, apiKey \in ApiKeyInputs : ClearCache(level, apiKey)
    \/ \E levels \in LevelsInputs : Prefetch(levels)
    \/ \E t \in BagToSet(inflight), r \in UpstreamResponses : PrefetchResolve(t, r)
    \/ \E t \in BagToSet(inflight) : PrefetchReject(t)
    \/ Tick
    \/ CheckData

Spec == Init /\ [][Next]_vars

\* What a pgn-files handler may be awaiting.
PgnTasks ==
    {[Task("pgn", level, stale) EXCEPT !.old = old] :
        level \in {l \in LevelInputs : ValidLevel(l)},
        stale \in {NoStale} \cup
                  {Stale(Classify(r.resources)) : r \in {q \in UpstreamResponses : WellFormed(q)}},
        old \in BOOLEAN}

\* The timer of a waiting pgn-files handler (setTimeout, 8000 ms) fires
\* unless the query settles first; upstream itself need never answer.
TimersFire == \A t \in PgnTasks : WF_vars(PgnTimeout(t))

SpecFair == Spec /\ TimersFire

\* The pgn-files handler, the cache and its invalidation, without the
\* prefetcher.
NextPgn ==
    \/ \E level \in LevelInputs : PgnFiles(level)
    \/ \E t \in BagToSet(inflight), r \in UpstreamResponses : PgnResolve(t, r)
    \/ \E t \in BagToSet(inflight) : PgnReject(t)
    \/ \E t \in BagToSet(inflight) : PgnTimeout(t)
    \/ \E t \in BagToSet(inflight), r \in UpstreamResponses : LateSettle(t, r)
    \/ \E level \in LevelInputs, apiKey \in ApiKeyInputs : ClearCache(level, apiKey)
    \/ Tick
    \/ CheckData

SpecPgnFair == Init /\ [][NextPgn]_vars /\ TimersFire

\* The classifier at work: both handlers fetching one key, one fetch at a
\* time, upstream answering with any resources array of ClassifierResponses.
NextClassify ==
    \/ PgnFilesWithin(KeyA, 1)
    \/ \E t \in BagToSet(inflight), r \in ClassifierResponses : PgnResolve(t, r)
    \/ PrefetchWithin(KeyA, 1)
    \/ \E t \in BagToSet(inflight), r \in ClassifierResponses : PrefetchResolve(t, r)
    \/ \E apiKey \in ApiKeyInputs : ClearCache(Undefined, apiKey)

SpecClassify == Init /\ [][NextClassify]_vars

\* The prefetcher and the cache on their own, with room for the queries of
\* a full prefetch request.
NextPrefetch ==
    \/ \E levels \in LevelsInputs : PrefetchWithin(levels, MaxPrefetchInflight)
    \/ \E t \in BagToSet(inflight), r \in UpstreamResponses : PrefetchResolve(t, r)
    \/ \E t \in BagToSet(inflight) : PrefetchReject(t)
    \/ Tick
    \/ CheckData

SpecPrefetch == Init /\ [][NextPrefetch]_vars

----------------------------------------------------------------------------
(* Vocabulary of the properties *)

\* A category key of the restricted charset: non-empty, letters, digits, underscore.
CharsetKey(k) ==
    /\ k # Undefined
    /\ k # <<>>
    /\ \A i \in 1..Len(k) : k[i] \in WordChars

\* The cache holds an entry for k that is at most stdTTL old.
Unexpired(d, k) == k \in DOMAIN d /\ d[k].age <= TTLTicks

\* The answer is a list of processable records.
ListShaped(response) ==
    /\ response.isArray
    /\ \A i \in 1..Len(response.resources) :
          response.resources[i].public_id # Undefined

\* The step just taken ended a pgn-files fetch in an upstream failure:
\* the query rejected, the timer fired, or the answer was not a list of
\* processable records.
FetchFailed(l) ==
    \/ l.op \in {"pgn_reject", "pgn_timeout"}
    \/ l.op = "pgn_resolve" /\ ~ListShaped(l.response)

\* The levels of the queries in flight.
QueriedKeys == {t.level : t \in BagToSet(inflight)}

----------------------------------------------------------------------------
(* Properties *)

\* C1: a pgn-files request for a valid level whose entry is unexpired at the
\* lookup (an empty list included) is answered 200 with exactly the cached
\* list, and issues no upstream query.
C1_CacheHitServed ==
    [][ (last'.op = "pgn" /\ CharsetKey(last'.arg) /\ Unexpired(data, last'.arg))
        => /\ last'.status = 200
           /\ last'.body = data[last'.arg].v
           /\ ~last'.staleHdr
           /\ last'.issued = <<>>
           /\ inflight' = inflight ]_vars

\* C1 witness: a request was answered from a cached empty list.
C1_Witness ==
    /\ last.op = "pgn"
    /\ last.status = 200
    /\ last.body = <<>>
    /\ Unexpired(data, last.arg)
    /\ data[last.arg].v = <<>>

\* C2 (as claimed): a fetch whose lookup found the entry expired, and whose
\* key was neither invalidated nor set again before its upstream query
\* failed, is answered 200 with the expired list, marked stale.
C2_StaleServedAfterExpiry ==
    (FetchFailed(last) /\ last.stale.known)
        => /\ last.status = 200
           /\ last.staleHdr
           /\ last.body = last.stale.v

\* C3 (as claimed): every upstream query is for a key of the charset.
C3_QueriesOnlyForCharsetKeys ==
    /\ \A k \in QueriedKeys : CharsetKey(k)
    /\ \A i \in 1..Len(last.issued) : CharsetKey(last.issued[i])

\* C4: a pgn-files request whose level is missing or outside the charset is
\* answered 400, with no cache lookup (not even the removal of an expired
\* entry), no upstream query, and the cache unchanged.
C4_InvalidLevelRejected ==
    [][ (last'.op = "pgn" /\ ~CharsetKey(last'.arg))
        => /\ last'.status = 400
           /\ last'.issued = <<>>
           /\ inflight' = inflight
           /\ data' = data ]_vars

\* C4 witness: a level outside the charset was answered 400 while the cache
\* held an entry under that very key.
C4_Witness ==
    /\ last.op = "pgn"
    /\ last.arg = KeyBad
    /\ last.status = 400
    /\ KeyBad \in DOMAIN data

\* C5: when the upstream query of a fetch for k fails while the cache
\* holds no unexpired entry for k, the request is answered 500 and the cache
\* has no entry for k afterwards.
C5_FailureWithoutEntryIs500 ==
    [][ (FetchFailed(last') /\ ~Unexpired(data, last'.arg))
        => /\ last'.status = 500
           /\ ~last'.staleHdr
           /\ last'.arg \notin DOMAIN data' ]_vars

\* C5 witness: a malformed answer met an empty cache and gave a 500.
C5_Witness ==
    /\ last.op = "pgn_resolve"
    /\ ~ListShaped(last.response)
    /\ last.status = 500
    /\ last.arg \notin DOMAIN data

\* A step writes nothing: no key is added, no value or age is changed, and
\* only an entry that had expired may have been dropped.
NothingWritten ==
    /\ \A k \in DOMAIN data' : k \in DOMAIN data /\ data'[k] = data[k]
    /\ \A k \in DOMAIN data : Unexpired(data, k) => k \in DOMAIN data'

\* C6: a failed pgn-files fetch (error, timeout, malformed answer) writes
\* nothing to the cache, and the answer that arrives after the timeout has
\* fired is discarded without being stored.
C6_FailureNeverWrites ==
    [][ (FetchFailed(last') \/ last'.op = "late") => NothingWritten ]_vars

\* C6 witness: a list-shaped answer arrived after the timeout and the key
\* is still not cached.
C6_Witness ==
    /\ last.op = "late"
    /\ ListShaped(last.response)
    /\ last.arg \notin DOMAIN data

\* C7: a fetch that missed and got a list-shaped answer returns the
\* classified list and stores exactly that list under its key; as long as
\* that entry is unexpired and not rewritten, a later fetch returns the
\* stored list, issues no query and leaves the entry as it is.
C7_PopulateThenHit ==
    [][ /\ (last'.op = "pgn_resolve" /\ ListShaped(last'.response))
            => /\ last'.status = 200
               /\ ~last'.staleHdr
               /\ last'.body = Classify(last'.response.resources)
               /\ data' = [k \in DOMAIN data \cup {last'.arg} |->
                              IF k = last'.arg THEN Entry(last'.body, 0) ELSE data[k]]
        /\ (last'.op = "pgn" /\ CharsetKey(last'.arg) /\ Unexpired(data, last'.arg))
            => /\ last'.status = 200
               /\ last'.body = data[last'.arg].v
               /\ last'.issued = <<>>
               /\ data' = data ]_vars

\* C7 witness: a request was answered from the cache with the non-empty
\* classified list a fetch had stored.
C7_Witness ==
    /\ last.op = "pgn"
    /\ last.status = 200
    /\ last.body = Classify(Res1)
    /\ Unexpired(data, last.arg)
    /\ data[last.arg].v = last.body

\* C8: the pgn-files lookup and the prefetch presence check treat an entry
\* as absent exactly when more than stdTTL (12 h) has passed since its last
\* set; a cache hit leaves the entry's age as it is, and every set starts
\* the countdown again.
C8_TtlExpiry ==
    [][ /\ (last'.op = "pgn" /\ CharsetKey(last'.arg))
            => /\ (last'.status = 200) <=> Unexpired(data, last'.arg)
               /\ (last'.status = 200) => data' = data
               /\ (last'.status # 200) => last'.issued = <<last'.arg>>
        /\ (last'.op = "prefetch" /\ last'.status = 200)
            => /\ \A i \in 1..Len(last'.issued) : ~Unexpired(data, last'.issued[i])
               /\ (last'.arg \in DOMAIN data /\ ~Unexpired(data, last'.arg))
                     => last'.issued = <<last'.arg>>
               /\ Unexpired(data, last'.arg) => last'.issued = <<>>
        /\ (last'.op \in {"pgn_resolve", "prefetch_resolve"}
               /\ ListShaped(last'.response))
            => /\ last'.arg \in DOMAIN data'
               /\ data'[last'.arg].age = 0 ]_vars

\* C8 witness: a lookup found an entry older than stdTTL and went upstream.
C8_Witness ==
    /\ last.op = "pgn"
    /\ last.cause = "expired"
    /\ last.status = 0
    /\ last.issued = <<last.arg>>

\* The request carries the configured admin secret.
IsAdmin(apiKey) == adminKey # Undefined /\ apiKey = adminKey

\* The request names no level (none, or an empty one).
NoLevel(level) == level = Undefined \/ level = <<>>

\* C9: an authorized clear-cache with a level removes that key's entry and
\* leaves every other entry unchanged; without a level it removes all
\* entries; a pgn-files fetch for a removed key that comes right after is a
\* miss and issues an upstream query.
C9_Invalidation ==
    [][ /\ (last'.op = "clear" /\ IsAdmin(last'.apiKey) /\ ~NoLevel(last'.arg))
            => /\ last'.status = 200
               /\ data' = [k \in DOMAIN data \ {last'.arg} |-> data[k]]
        /\ (last'.op = "clear" /\ IsAdmin(last'.apiKey) /\ NoLevel(last'.arg))
            => /\ last'.status = 200
               /\ DOMAIN data' = {}
        /\ ( /\ last.op = "clear" /\ IsAdmin(last.apiKey)
             /\ last'.op = "pgn" /\ CharsetKey(last'.arg)
             /\ (NoLevel(last.arg) \/ last.arg = last'.arg) )
            => /\ last'.status = 0
               /\ last'.issued = <<last'.arg>>
               /\ BagCardinality(inflight') = BagCardinality(inflight) + 1 ]_vars

\* C9 witness: an authorized clear-cache for one key removed that key's
\* entry while another key's entry stayed.
C9_Witness ==
    /\ last.op = "clear"
    /\ IsAdmin(last.apiKey)
    /\ last.status = 200
    /\ last.removed = {last.arg}
    /\ DOMAIN data # {}

\* C10 (as claimed): a clear-cache request that does not carry the
\* configured admin secret is answered 401 and leaves the cache unchanged,
\* also when no secret is configured and the request carries no apiKey.
C10_UnauthorizedRejected ==
    [][ (last'.op = "clear" /\ ~IsAdmin(last'.apiKey))
        => /\ last'.status = 401
           /\ data' = data ]_vars

\* The comma-separated entries of a levels parameter, and the first n of them.
RECURSIVE EntriesOf(_)
EntriesOf(levels) ==
    IF \A i \in 1..Len(levels) : levels[i] # ","
    THEN <<levels>>
    ELSE LET c == CHOOSE i \in 1..Len(levels) :
                     levels[i] = "," /\ \A j \in 1..(i - 1) : levels[j] # ","
         IN  <<SubSeq(levels, 1, c - 1)>> \o EntriesOf(SubSeq(levels, c + 1, Len(levels)))

FirstEntries(levels, n) ==
    LET e == EntriesOf(levels)
    IN  {e[i] : i \in {j \in 1..Len(e) : j <= n}}

\* C11: one prefetch request issues at most 5 upstream queries, each for
\* one of the first 5 comma-separated entries of levels, and none for a key
\* whose entry is unexpired when its task checks the cache.
C11_PrefetchCapped ==
    [][ (last'.op = "prefetch" /\ last'.status = 200)
        => /\ Len(last'.issued) <= 5
           /\ BagCardinality(inflight') = BagCardinality(inflight) + Len(last'.issued)
           /\ \A i \in 1..Len(last'.issued) :
                 /\ last'.issued[i] \in FirstEntries(last'.arg, 5)
                 /\ ~Unexpired(data, last'.issued[i]) ]_vars

\* C11 witness: a request naming six levels issued five queries.
C11_Witness ==
    /\ last.op = "prefetch"
    /\ Len(EntriesOf(last.arg)) = 6
    /\ Len(last.issued) = 5
    /\ BagCardinality(inflight) = 5

\* A prefetch task ended in its catch block.
PrefetchFailed(l) ==
    \/ l.op = "prefetch_reject"
    \/ l.op = "prefetch_resolve" /\ ~ListShaped(l.response)

\* The prefetch tasks in flight for keys other than k, with their numbers.
OtherPrefetches(B, k) ==
    [t \in {u \in BagToSet(B) : u.kind = "prefetch" /\ u.level # k} |-> B[t]]

\* C12: when a prefetch task's query rejects or resolves malformed, the
\* cache is left exactly as it was, nothing is sent to any caller, and the
\* prefetch tasks of the other keys stay in flight; a task whose query then
\* resolves with a list stores it.
C12_PrefetchFailureIsolated ==
    [][ /\ PrefetchFailed(last')
           => /\ data' = data
              /\ last'.status = 0 /\ last'.body = <<>> /\ ~last'.staleHdr
              /\ OtherPrefetches(inflight', last'.arg) = OtherPrefetches(inflight, last'.arg)
              /\ BagCardinality(inflight') = BagCardinality(inflight) - 1
        /\ (last'.op = "prefetch_resolve" /\ ListShaped(last'.response))
           => /\ last'.arg \in DOMAIN data'
              /\ data'[last'.arg] = Entry(Classify(last'.response.resources), 0)
              /\ last'.status = 0 ]_vars

\* C12 witness: one key's task has failed while another key's task of the
\* same request is still in flight.
C12_Witness ==
    /\ PrefetchFailed(last)
    /\ \E t \in InFlight("prefetch") : t.level # last.arg

\* The pgn-files handlers awaiting a query for key k.
Awaiting(B, k) ==
    BagCardinality([t \in {u \in BagToSet(B) : u.kind = "pgn" /\ u.level = k} |-> B[t]])

\* A response of pgn-files sent when its query settled or its timer fired.
Answered(l, k) ==
    /\ l.op \in {"pgn_resolve", "pgn_reject", "pgn_timeout"}
    /\ l.arg = k
    /\ l.status \in {200, 500}

\* C13: a pgn-files request with a valid level that waits for upstream is
\* eventually answered, whether or not upstream answers; each answer ends
\* exactly one waiting request and a request stops waiting only by being
\* answered; a request whose timer fires is answered as a failure: what the
\* cache holds with the stale header, else 500.
C13_BoundedResponse ==
    /\ \A k \in {KeyA} : (Awaiting(inflight, k) > 0) ~> Answered(last, k)
    /\ [][ \A k \in {KeyA} :
             /\ Answered(last', k) => Awaiting(inflight', k) = Awaiting(inflight, k) - 1
             /\ Awaiting(inflight', k) < Awaiting(inflight, k) => Answered(last', k)
             /\ (last'.op = "pgn_timeout" /\ last'.arg = k)
                => \/ last'.status = 500
                   \/ /\ last'.status = 200 /\ last'.staleHdr
                      /\ Unexpired(data, k) /\ last'.body = data[k].v ]_vars

\* C13 witness: a request was answered 500 by its timer while its query is
\* still outstanding.
C13_Witness ==
    /\ last.op = "pgn_timeout"
    /\ last.status = 500
    /\ \E t \in InFlight("late") : t.level = last.arg

\* The display name of a listed file: what follows the last '/' of its
\* public id (the whole id when it has none).
LastSegment(id) ==
    LET slashes == {i \in 1..Len(id) : id[i] = "/"}
    IN  IF slashes = {} THEN id
        ELSE SubSeq(id, (CHOOSE i \in slashes : \A j \in slashes : j <= i) + 1, Len(id))

DigitLed(f) ==
    LET name == LastSegment(f.filename) IN name # <<>> /\ name[1] \in Digits

\* The value in base 10 of the first r characters of a name.
RECURSIVE RunValue(_, _)
RunValue(name, r) ==
    IF r = 0 THEN 0 ELSE 10 * RunValue(name, r - 1) + DigitValue(name[r])

\* The value of the maximal leading digit run of a listed file's display name.
LeadValue(f) ==
    LET name == LastSegment(f.filename)
        run == CHOOSE r \in 0..Len(name) :
                   /\ \A i \in 1..r : name[i] \in Digits
                   /\ r < Len(name) => name[r + 1] \notin Digits
    IN  RunValue(name, run)

\* A file by its url and public id, as upstream sent it and as it is listed.
Sent(resources) ==
    [i \in 1..Len(resources) |->
        [url |-> resources[i].secure_url, filename |-> resources[i].public_id]]

Listed(list) ==
    [i \in 1..Len(list) |-> [url |-> list[i].url, filename |-> list[i].filename]]

\* The lists the classifier has produced: the cached ones and the one sent.
ProducedLists == {data[k].v : k \in DOMAIN data} \cup {last.body}

\* An upstream query resolved with a list, which was classified.
Classified(l) ==
    /\ l.op \in {"pgn_resolve", "prefetch_resolve"}
    /\ ListShaped(l.response)

\* C14: in every list the classifier produced, every file whose display name
\* starts with a digit comes before every file whose display name does not.
C14_Partition ==
    \A list \in ProducedLists :
        \A i, j \in 1..Len(list) :
            (DigitLed(list[i]) /\ ~DigitLed(list[j])) => i < j

\* C14 witness: upstream sent a file without a leading digit ahead of one
\* with a leading digit, and all the files sent are listed.
C14_Witness ==
    /\ Classified(last)
    /\ Len(last.body) = Len(last.response.resources)
    /\ LET sent == Sent(last.response.resources)
       IN  \E i, j \in 1..Len(sent) :
               i < j /\ ~DigitLed(sent[i]) /\ DigitLed(sent[j])

\* C15: the digit-led files of a classified list are in ascending order of
\* their leading number, and those with the same leading number are in the
\* order upstream sent them.
C15_NumericOrder ==
    Classified(last) =>
        LET list == Listed(last.body)
            sent == Sent(last.response.resources)
        IN  /\ \A i, j \in 1..Len(list) :
                   (i < j /\ DigitLed(list[i]) /\ DigitLed(list[j]))
                   => LeadValue(list[i]) <= LeadValue(list[j])
            /\ \A n \in {LeadValue(sent[i]) : i \in {j \in 1..Len(sent) : DigitLed(sent[j])}} :
                   LET HasValue(f) == DigitLed(f) /\ LeadValue(f) = n
                   IN  SelectSeq(list, HasValue) = SelectSeq(sent, HasValue)

\* C15 witness: upstream sent a larger number ahead of a smaller one, and
\* two different files with the same leading number.
C15_Witness ==
    /\ Classified(last)
    /\ LET sent == Sent(last.response.resources)
       IN  /\ \E i, j \in 1..Len(sent) :
                  /\ i < j /\ DigitLed(sent[i]) /\ DigitLed(sent[j])
                  /\ LeadValue(sent[i]) > LeadValue(sent[j])
           /\ \E i, j \in 1..Len(sent) :
                  /\ i < j /\ DigitLed(sent[i]) /\ DigitLed(sent[j])
                  /\ LeadValue(sent[i]) = LeadValue(sent[j])
                  /\ sent[i] # sent[j]

\* A produced list handed to the classifier again, as upstream records.
AsResources(list) == [i \in 1..Len(list) |-> File(list[i].url, list[i].filename)]

\* C16: classifying a list the classifier produced gives the same list.
C16_Idempotent ==
    \A list \in ProducedLists : Classify(AsResources(list)) = list

\* C16 witness: the classifier reordered what upstream sent, which held
\* digit-led files of equal leading number and a file without leading digit.
C16_Witness ==
    /\ Classified(last)
    /\ Listed(last.body) # Sent(last.response.resources)
    /\ \E i, j \in 1..Len(last.body) :
           /\ i < j /\ DigitLed(last.body[i]) /\ DigitLed(last.body[j])
           /\ LeadValue(last.body[i]) = LeadValue(last.body[j])
           /\ last.body[i] # last.body[j]
    /\ \E i \in 1..Len(last.body) : ~DigitLed(last.body[i])

\* A prefetch task for key k ended: its query settled (it has no timer).
PrefetchEnded(l, k) ==
    /\ l.op \in {"prefetch_resolve", "prefetch_reject"}
    /\ l.arg = k

\* C17: every operation that issued an upstream query eventually finishes,
\* whether or not upstream answers: a waiting pgn-files request is answered
\* and a pending prefetch task ends.
C17_EveryQueryBounded ==
    /\ \A k \in {KeyA} : (Awaiting(inflight, k) > 0) ~> Answered(last, k)
    /\ \A k \in {KeyA, KeyBad} :
           (\E t \in InFlight("prefetch") : t.level = k) ~> PrefetchEnded(last, k)

\* The queries in flight for key k that a handler or a prefetch task awaits.
Fetching(B, k) ==
    BagCardinality([t \in {u \in BagToSet(B) : u.kind # "late" /\ u.level = k} |-> B[t]])

\* The entries of a prefetch request that its tasks find uncached.
Uncached(d, levels) ==
    LET e == EntriesOf(levels)
    IN  {i \in 1..Len(e) : i <= 5 /\ ~Unexpired(d, e[i])}

\* C18: fetches of one key are not deduplicated and the last set wins: a
\* pgn-files miss and every uncached entry of a prefetch request issue a
\* query whatever is already in flight for the key, and each query that
\* resolves with a list leaves the key's entry equal to its own classified
\* list, whatever the entry was and whichever query was issued first.
C18_LastSetWins ==
    [][ /\ (last'.op = "pgn" /\ CharsetKey(last'.arg) /\ ~Unexpired(data, last'.arg))
           => Fetching(inflight', last'.arg) = Fetching(inflight, last'.arg) + 1
        /\ (last'.op = "prefetch" /\ last'.status = 200)
           => /\ Len(last'.issued) = Cardinality(Uncached(data, last'.arg))
              /\ \A k \in {KeyA, KeyBad} :
                    Fetching(inflight', k) =
                        Fetching(inflight, k)
                        + Cardinality({i \in Uncached(data, last'.arg) :
                                          EntriesOf(last'.arg)[i] = k})
        /\ Classified(last')
           => /\ last'.arg \in DOMAIN data'
              /\ data'[last'.arg] = Entry(Classify(last'.response.resources), 0)
              /\ Fetching(inflight', last'.arg) = Fetching(inflight, last'.arg) - 1 ]_vars

\* C18 witness: a query resolved and its list replaced the different,
\* unexpired list that another query for the same key had stored while
\* this one was in flight.
C18_Witness ==
    /\ Classified(last)
    /\ last.replaced.known
    /\ last.replaced.v # last.body
    /\ data[last.arg].v = last.body

\* A list is the complete classified list of a resources array: it holds
\* the files sent, each once for each time it was sent, the digit-led ones
\* first in ascending order of their leading number, then the others in
\* the collation order of their display names.
CompleteListOf(list, resources) ==
    /\ BagOfSeq(Listed(list)) = BagOfSeq(Sent(resources))
    /\ \A i, j \in 1..Len(list) :
          i < j =>
             /\ ~(~DigitLed(list[i]) /\ DigitLed(list[j]))
             /\ (DigitLed(list[i]) /\ DigitLed(list[j]))
                => LeadValue(list[i]) <= LeadValue(list[j])
             /\ (~DigitLed(list[i]) /\ ~DigitLed(list[j]))
                => LocaleCompare(LastSegment(list[i].filename),
                                 LastSegment(list[j].filename)) <= 0
    /\ \A i \in 1..Len(list) : list[i].displayName = LastSegment(list[i].filename)

\* An acknowledged clear-cache covering key k.
ClearedKey(l, k) ==
    /\ l.op = "clear"
    /\ l.status = 200
    /\ NoLevel(l.arg) \/ l.arg = k

\* C19: every cache entry is the complete classified list of one upstream
\* answer; an entry's list changes only when a query for its key resolves
\* with a list, and then it is that answer's classified list, whole; an
\* entry otherwise only ages, or is removed by an acknowledged clear-cache
\* or after it expired.
C19_EntryInvariant ==
    /\ [](\A k \in DOMAIN data :
             \E r \in {q \in UpstreamResponses : ListShaped(q)} :
                 CompleteListOf(data[k].v, r.resources))
    /\ [][ \A k \in DOMAIN data \cup DOMAIN data' :
             /\ (k \in DOMAIN data' /\ (k \notin DOMAIN data \/ data'[k] # data[k]))
                => \/ /\ Classified(last') /\ last'.arg = k
                      /\ Fetching(inflight, k) > 0
                      /\ data'[k].age = 0
                      /\ data'[k].v = last'.body
                      /\ CompleteListOf(data'[k].v, last'.response.resources)
                   \/ /\ last'.op = "tick"
                      /\ k \in DOMAIN data
                      /\ data'[k].v = data[k].v
                      /\ data'[k].age = data[k].age + 1
             /\ (k \in DOMAIN data /\ k \notin DOMAIN data')
                => ClearedKey(last', k) \/ data[k].age > TTLTicks ]_vars

\* C19 witness: a cached list that was not empty has been replaced by the
\* different list of another answer.
C19_Witness ==
    /\ Classified(last)
    /\ last.replaced.known
    /\ Len(last.replaced.v) > 0
    /\ last.replaced.v # data[last.arg].v
    /\ \E k \in DOMAIN data : k # last.arg

\* C20: once an authorized clear-cache covering a key is acknowledged, no
\* list from an upstream query issued before it is stored for that key.
C20_InvalidationNotUndone ==
    \A k \in DOMAIN data :
        ~(Classified(last) /\ last.arg = k /\ last.old /\ data[k].v = last.body)

====
